---- MODULE Spec2Model ----
(***************************************************************************)
(* A model of homeassistant/components/rflink.py: the connection manager   *)
(* (connect / reconnect / shutdown), the event router (event_callback over *)
(* the entity lookup) and the per-entity command dispatcher                *)
(* (RflinkCommand._async_handle_command / _async_send_command).            *)
(*                                                                         *)
(* Everything runs on one asyncio event loop, so every action below is one *)
(* uninterrupted run of a callback or of a coroutine between two of its    *)
(* suspension points.  The only other thread is the default executor that  *)
(* run_in_executor hands the unacknowledged sends to.                      *)
(***************************************************************************)
EXTENDS Integers, Sequences, FiniteSets, TLC

(***************************************************************************)
(* Bounds of the model.                                                    *)
(***************************************************************************)
NumHandlers == 2        \* command-capable entities of the main specification
MaxRepetitions == 2     \* largest signal_repetitions an entity is configured with
MaxCommands == 2        \* commands issued in one behaviour
MaxConns == 2           \* connections that are successfully opened in one behaviour
MaxAttempts == 3        \* connection attempts made in one behaviour
SingleMaxRepetitions == 3   \* largest signal_repetitions in SpecSingle
MaxBrightness == 255    \* largest brightness dim is called with in SpecDim

(***************************************************************************)
(* Program constants.                                                      *)
(***************************************************************************)
DEFAULT_SIGNAL_REPETITIONS == 1
DEFAULT_RECONNECT_INTERVAL == 10
NoProtocol == 0         \* RflinkCommand._protocol is None
NoTask == 0             \* RflinkCommand._repetition_task is None
DIM_STEP == 17

EVENT_KEY_COMMAND == "command"
EVENT_KEY_ID == "id"
EVENT_KEY_SENSOR == "sensor"
EVENT_KEY_UNIT == "unit"
STATE_UNKNOWN == "unknown"
NoneId == "None"        \* event.get('id', None) of an event without an id

Handlers == 1..NumHandlers
Conns == 1..MaxConns
EventClasses == {EVENT_KEY_COMMAND, EVENT_KEY_SENSOR}

VARIABLES
    \* ---- host application and configuration
    hass_state,          \* hass.state: "running" or "stopping"
    conf_wait_ack,       \* config[DOMAIN][CONF_WAIT_FOR_ACK]: "on" / "off"
    reconnect_interval,  \* config[DOMAIN][CONF_RECONNECT_INTERVAL]
    signal_repetitions,  \* entity -> its _signal_repetitions
    kind,                \* entity -> "switch" (SwitchableRflinkDevice) or
                         \*           "device" (RflinkDevice, no _handle_event)
    \* ---- connection manager
    connecting,          \* connect() coroutines suspended in `yield from connection`
    connect_jobs,        \* connect jobs queued by hass.async_add_job, not started
    timers,              \* delays of the pending loop.call_later(.., reconnect, exc)
    transports,          \* connection -> "none" / "open" / "closing" / "closed"
    stop_listeners,      \* connections whose transport.close() listens for STOP
    attempts,            \* connection attempts started so far
    protocol,            \* RflinkCommand._protocol (class level)
    wait_ack,            \* RflinkCommand._wait_ack (class level): "unset"/"on"/"off"
    \* ---- router
    entity_lookup,       \* hass.data[DATA_ENTITY_LOOKUP]: class -> defaultdict(list)
    device_register,     \* hass.data[DATA_DEVICE_REGISTER]: classes with a hook
    routed,              \* what the last event_callback run did (observation)
    \* ---- command dispatcher
    state,               \* entity -> _state: "unknown" / "on" / "off"
    repetition_task,     \* entity -> _repetition_task (a chain's newest task)
    sends,               \* the command sequences issued so far, in issue order
    executor,            \* send_command jobs handed to the default executor
    wire                 \* what the transports were handed (observation)

confVars == <<conf_wait_ack, reconnect_interval, signal_repetitions, kind>>
connVars == <<hass_state, connecting, connect_jobs, timers, transports,
              stop_listeners, attempts, protocol, wait_ack>>
routeVars == <<entity_lookup, device_register, routed>>
cmdVars == <<state, repetition_task, sends, executor, wire>>
vars == <<confVars, connVars, routeVars, cmdVars>>

(***************************************************************************)
(* Events: dictionaries over the optional keys id, command, sensor, unit.  *)
(***************************************************************************)
EventKeys == {EVENT_KEY_ID, EVENT_KEY_COMMAND, EVENT_KEY_SENSOR, EVENT_KEY_UNIT}
DeviceIds == {"D1", "D2", "D3", "D9"}   \* D9 is never registered
EventValues(k) ==
    IF k = EVENT_KEY_ID THEN DeviceIds
    ELSE IF k = EVENT_KEY_COMMAND THEN {"on", "off", "allon"}
    ELSE IF k = EVENT_KEY_SENSOR THEN {"temperature"}
    ELSE {"C"}
Events ==
    UNION { { e \in [K -> UNION {EventValues(k) : k \in K}] :
                \A k \in K : e[k] \in EventValues(k) } : K \in SUBSET EventKeys }

\* (mutant) the sensor key is looked at first
identify_event_type_sensor_first(event) ==
    IF EVENT_KEY_SENSOR \in DOMAIN event THEN EVENT_KEY_SENSOR
    ELSE IF EVENT_KEY_COMMAND \in DOMAIN event THEN EVENT_KEY_COMMAND
    ELSE "unknown"

identify_event_type(event) ==
    IF EVENT_KEY_COMMAND \in DOMAIN event THEN EVENT_KEY_COMMAND
    ELSE IF EVENT_KEY_SENSOR \in DOMAIN event THEN EVENT_KEY_SENSOR
    ELSE "unknown"

EventId(event) ==
    IF EVENT_KEY_ID \in DOMAIN event THEN event[EVENT_KEY_ID] ELSE NoneId

\* entity h's _device_id
DeviceIdOf(h) == IF h = 1 THEN "D1" ELSE IF h = 2 THEN "D2" ELSE "D3"

\* defaultdict(list).__getitem__: the value read, and the dictionary afterwards
\* (a missing key is inserted with an empty list)
DefaultDictGet(d, k) == IF k \in DOMAIN d THEN d[k] ELSE <<>>
DefaultDictAfterGet(d, k) == IF k \in DOMAIN d THEN d ELSE d @@ (k :> <<>>)

(***************************************************************************)
(* Connection manager: async_setup.connect, async_setup.reconnect and the  *)
(* EVENT_HOMEASSISTANT_STOP listeners that connect() registers.            *)
(***************************************************************************)

\* RflinkCommand.set_rflink_protocol(protocol, wait_ack): the class-level
\* _wait_ack is only overwritten when wait_ack is not None
SetWaitAck(old, new) == IF new # "None" THEN new ELSE old

\* (mutant) a delay that grows with the attempts made
ReconnectDelay_backoff(nAttempts) == reconnect_interval * nAttempts

\* the delay connect() gives loop.call_later after a failed attempt
ReconnectDelay(nAttempts) == reconnect_interval

\* (mutant) a connect job is queued whatever the host application's state
ReconnectJobs_always(jobs) == jobs + 1

\* reconnect(exc): reset the protocol binding; queue a connect job unless
\* the host application is stopping
ReconnectJobs(jobs) == IF hass_state # "stopping" THEN jobs + 1 ELSE jobs

\* (mutant) the protocol binding survives the disconnect
Reconnect_keep ==
    /\ protocol' = protocol
    /\ wait_ack' = SetWaitAck(wait_ack, "None")
    /\ connect_jobs' = ReconnectJobs(connect_jobs)

Reconnect ==
    /\ protocol' = NoProtocol
    /\ wait_ack' = SetWaitAck(wait_ack, "None")
    /\ connect_jobs' = ReconnectJobs(connect_jobs)

\* (mutant) a started connect job stays queued
ConnectStart_keepjob ==
    /\ connect_jobs > 0
    /\ attempts < MaxAttempts
    /\ connect_jobs' = connect_jobs
    /\ connecting' = connecting + 1
    /\ attempts' = attempts + 1
    /\ UNCHANGED <<hass_state, timers, transports, stop_listeners, protocol, wait_ack>>
    /\ UNCHANGED <<confVars, routeVars, cmdVars>>

\* a connect job queued by hass.async_add_job starts: connect() runs up to
\* `yield from connection`
ConnectStart ==
    /\ connect_jobs > 0
    /\ attempts < MaxAttempts
    /\ connect_jobs' = connect_jobs - 1
    /\ connecting' = connecting + 1
    /\ attempts' = attempts + 1
    /\ UNCHANGED <<hass_state, timers, transports, stop_listeners, protocol, wait_ack>>
    /\ UNCHANGED <<confVars, routeVars, cmdVars>>

\* `yield from connection` raises SerialException, ConnectionRefusedError or
\* TimeoutError: log, call_later(reconnect_interval, reconnect, exc), return
ConnectFail(exc) ==
    /\ connecting > 0
    /\ connecting' = connecting - 1
    /\ timers' = Append(timers, ReconnectDelay(attempts))
    /\ UNCHANGED <<hass_state, connect_jobs, transports, stop_listeners,
                   attempts, protocol, wait_ack>>
    /\ UNCHANGED <<confVars, routeVars, cmdVars>>

\* `yield from connection` returns (transport, protocol): publish the protocol
\* to RflinkCommand and register transport.close() for the STOP event
ConnectSucceed(c) ==
    /\ connecting > 0
    /\ c \in Conns
    /\ transports[c] = "none"
    /\ \A d \in Conns : d < c => transports[d] # "none"
    /\ connecting' = connecting - 1
    /\ transports' = [transports EXCEPT ![c] = "open"]
    /\ protocol' = c
    /\ wait_ack' = SetWaitAck(wait_ack, conf_wait_ack)
    /\ stop_listeners' = stop_listeners \cup {c}
    /\ UNCHANGED <<hass_state, connect_jobs, timers, attempts>>
    /\ UNCHANGED <<confVars, routeVars, cmdVars>>

\* a call_later timer expires and calls reconnect(exc)
TimerFire ==
    /\ timers # <<>>
    /\ timers' = Tail(timers)
    /\ Reconnect
    /\ UNCHANGED <<hass_state, connecting, transports, stop_listeners, attempts>>
    /\ UNCHANGED <<confVars, routeVars, cmdVars>>

\* the transport of connection c reports the lost (or closed) connection by
\* calling disconnect_callback, which connect() set to reconnect
Disconnect(c) ==
    /\ transports[c] \in {"open", "closing"}
    /\ transports' = [transports EXCEPT ![c] = "closed"]
    /\ Reconnect
    /\ UNCHANGED <<hass_state, connecting, timers, stop_listeners, attempts>>
    /\ UNCHANGED <<confVars, routeVars, cmdVars>>

\* the host application stops: hass.state becomes stopping and
\* EVENT_HOMEASSISTANT_STOP runs every listener registered so far, each the
\* transport.close() of one successful connect()
CloseAll(ts, listeners) ==
    [c \in Conns |-> IF c \in listeners /\ ts[c] = "open" THEN "closing" ELSE ts[c]]

Shutdown ==
    /\ hass_state = "running"
    /\ hass_state' = "stopping"
    /\ transports' = CloseAll(transports, stop_listeners)
    /\ stop_listeners' = {}
    /\ UNCHANGED <<connecting, connect_jobs, timers, attempts, protocol, wait_ack>>
    /\ UNCHANGED <<confVars, routeVars, cmdVars>>

ConnectErrors == {"SerialException", "ConnectionRefusedError", "TimeoutError"}

(***************************************************************************)
(* Command dispatcher: RflinkCommand.                                      *)
(*                                                                         *)
(* sends[i] is the i-th command sequence issued: the first transmission,   *)
(* made by the coroutine that called _async_handle_command, followed by    *)
(* the repetition tasks that _async_send_command creates one after the     *)
(* other.  Of one sequence at most one unit exists at a time, so a record  *)
(* holds the unit that is current:                                         *)
(*   h         the entity                                                  *)
(*   cmd       the payload string                                          *)
(*   reps      the `repetitions` argument of the current invocation        *)
(*   pc        "await_ack"  suspended in `yield from send_command_ack`     *)
(*             "scheduled"  a task created by create_task, not yet run     *)
(*             "done" / "cancelled" / "failed" (raised)                    *)
(*   sent      transmissions of the sequence a transport was handed        *)
(*   preempted an inbound event was handled by h after the issue           *)
(* repetition_task[h] names the sequence whose task was created last for   *)
(* h: a task is only ever stored when it is created, so the stored task is *)
(* that sequence's current unit or a finished one.                         *)
(***************************************************************************)
LivePc == {"await_ack", "scheduled"}

DigitStr == <<"0", "1", "2", "3", "4", "5", "6", "7", "8", "9">>

RECURSIVE ToStr(_)
\* str(n) of a non-negative int
ToStr(n) == IF n < 10 THEN DigitStr[n + 1]
            ELSE ToStr(n \div 10) \o DigitStr[(n % 10) + 1]

\* (mutant) the level nearest to brightness / 17
DimLevel_nearest(brightness) == (2 * brightness + DIM_STEP) \div (2 * DIM_STEP)

\* int(brightness / 17): true division, then truncation toward zero
DimLevel(brightness) ==
    IF brightness >= 0 THEN brightness \div DIM_STEP
    ELSE -((-brightness) \div DIM_STEP)

\* the cmd string _async_handle_command computes
CommandPayload(command, arg) ==
    IF command = "turn_on" THEN "on"
    ELSE IF command = "turn_off" THEN "off"
    ELSE ToStr(DimLevel(arg))

\* (mutant) every command leaves the entity on
CommandState_always_on(command) == "on"

\* the _state _async_handle_command assigns
CommandState(command) ==
    IF command = "turn_off" THEN "off" ELSE "on"

\* cancel_queued_send_commands: Task.cancel() of the stored task.  A task
\* that has not run yet never runs; a task suspended in its await gets
\* CancelledError thrown into it; a finished task is left as it is.
CancelQueued(h, ss, rtask) ==
    IF rtask[h] # NoTask /\ ss[rtask[h]].pc \in LivePc
    THEN [ss EXCEPT ![rtask[h]].pc = "cancelled"]
    ELSE ss

\* one write of sequence i's payload to the transport of connection c; live
\* tells whether c is, at that moment, the published and open connection
Transmission(i, s, c) ==
    [chain |-> i, id |-> DeviceIdOf(s.h), cmd |-> s.cmd, conn |-> c,
     live |-> (protocol = c /\ transports[c] = "open")]

\* (mutant) one repetition too many
RepeatsLeft_extra(reps) == reps >= 1

\* _async_send_command lines 376-378: queue the next repetition as a task and
\* store it, or end the sequence
RepeatsLeft(reps) == reps > 1

NextRepetitions(reps) == reps - 1

StoreTask(rtask, h, i) == [rtask EXCEPT ![h] = i]

AfterSend(i, st) ==
    LET s == st.sends[i] IN
    IF RepeatsLeft(s.reps)
    THEN [st EXCEPT !.sends[i].reps = NextRepetitions(s.reps),
                    !.sends[i].pc = "scheduled",
                    !.rtask = StoreTask(st.rtask, s.h, i)]
    ELSE [st EXCEPT !.sends[i].pc = "done"]

\* _async_send_command lines 364-374: reading self._wait_ack or an attribute
\* of a None protocol raises; send_command_ack writes the payload and
\* suspends; otherwise the bound send_command is handed to the executor and
\* the coroutine runs on to lines 376-378
CanSend == wait_ack # "unset" /\ protocol # NoProtocol

SendStart(i, st) ==
    LET s == st.sends[i] IN
    IF ~CanSend
    THEN [st EXCEPT !.sends[i].pc = "failed"]
    ELSE IF wait_ack = "on"
    THEN [st EXCEPT !.sends[i].pc = "await_ack",
                    !.sends[i].sent = s.sent + 1,
                    !.wire = st.wire \cup {Transmission(i, s, protocol)}]
    ELSE AfterSend(i, [st EXCEPT !.executor =
                                 st.executor \cup {[chain |-> i, reps |-> s.reps,
                                                    conn |-> protocol]}])

CmdState == [sends |-> sends, executor |-> executor, wire |-> wire,
             rtask |-> repetition_task]

SetCmdState(st) ==
    /\ sends' = st.sends
    /\ executor' = st.executor
    /\ wire' = st.wire
    /\ repetition_task' = st.rtask

\* _async_handle_command(command, arg) up to its first suspension
HandleCommand(h, command, arg) ==
    /\ kind[h] = "switch"
    /\ Len(sends) < MaxCommands
    /\ LET i == Len(sends) + 1
           new == [h |-> h, cmd |-> CommandPayload(command, arg),
                   reps |-> signal_repetitions[h], pc |-> "scheduled",
                   sent |-> 0, preempted |-> FALSE]
           st0 == [CmdState EXCEPT
                     !.sends = Append(CancelQueued(h, sends, repetition_task), new)]
       IN SetCmdState(SendStart(i, st0))
    /\ state' = [state EXCEPT ![h] = CommandState(command)]
    /\ UNCHANGED <<confVars, connVars, routeVars>>

\* the gateway acknowledges (or the wait times out): the suspended
\* `yield from send_command_ack` returns and lines 376-378 run
Ack(i) ==
    /\ i \in 1..Len(sends)
    /\ sends[i].pc = "await_ack"
    /\ SetCmdState(AfterSend(i, CmdState))
    /\ UNCHANGED <<state, confVars, connVars, routeVars>>

\* the event loop runs a repetition task created by create_task
TaskRun(i) ==
    /\ i \in 1..Len(sends)
    /\ sends[i].pc = "scheduled"
    /\ SetCmdState(SendStart(i, CmdState))
    /\ UNCHANGED <<state, confVars, connVars, routeVars>>

\* an executor thread runs a queued send_command: the payload is written to
\* the transport of the protocol the job was bound to when it was queued
ExecutorRun(job) ==
    /\ job \in executor
    /\ executor' = executor \ {job}
    /\ wire' = wire \cup {Transmission(job.chain, sends[job.chain], job.conn)}
    /\ sends' = [sends EXCEPT ![job.chain].sent = @ + 1]
    /\ UNCHANGED <<state, repetition_task, confVars, connVars, routeVars>>

(***************************************************************************)
(* Event router: async_setup.event_callback and RflinkDevice.handle_event. *)
(* hass.async_add_job(async_update_ha_state()) and hass.bus.fire(..) act   *)
(* on the host application only and are left out.                          *)
(***************************************************************************)

\* (mutant) every command other than 'off' switches the entity on
EventState_allon(old, command) ==
    IF command = "off" THEN "off" ELSE "on"

\* the state SwitchableRflinkDevice._handle_event leaves for a command
EventState(old, command) ==
    IF command = "on" THEN "on"
    ELSE IF command = "off" THEN "off"
    ELSE old

MarkPreempted(ss, h) ==
    [j \in 1..Len(ss) |->
        IF ss[j].h = h THEN [ss[j] EXCEPT !.preempted = TRUE] ELSE ss[j]]

\* entity.handle_event(event): _handle_event of the entity's class.
\* RflinkDevice._handle_event raises NotImplementedError;
\* SwitchableRflinkDevice._handle_event cancels the queued repetitions, then
\* reads event['command'] (KeyError when the event has none)
HandleEvent(h, event, rs) ==
    LET called == [rs EXCEPT !.invoked = Append(rs.invoked, h)] IN
    IF kind[h] = "device"
    THEN [called EXCEPT !.raised = TRUE]
    ELSE LET cancelled == [called EXCEPT
                             !.sends = CancelQueued(h, rs.sends, repetition_task)]
         IN IF EVENT_KEY_COMMAND \notin DOMAIN event
            THEN [cancelled EXCEPT !.raised = TRUE]
            ELSE [cancelled EXCEPT
                    !.sends = MarkPreempted(cancelled.sends, h),
                    !.state[h] = EventState(rs.state[h], event[EVENT_KEY_COMMAND])]

RECURSIVE DispatchAll(_, _, _)
\* `for entity in entities: entity.handle_event(event)`: an exception raised
\* by a handler leaves the loop and event_callback
DispatchAll(entities, event, rs) ==
    IF entities = <<>> \/ rs.raised THEN rs
    ELSE DispatchAll(Tail(entities), event, HandleEvent(Head(entities), event, rs))

\* (mutant) the hook is given every event of its class
HookCalled_always(event_type, entities) ==
    event_type \in device_register

\* whether event_callback hands the event to the hook of its class
HookCalled(event_type, entities) ==
    entities = <<>> /\ event_type \in device_register

\* routed records of the last event_callback run: the class of the event, the
\* entities the lookup gave, the entities whose handle_event was called (in
\* call order), whether the hook was given the event, whether a handler raised
NotRouted == [any |-> FALSE, type |-> "unknown", entities |-> <<>>,
              invoked |-> <<>>, hook |-> FALSE, raised |-> FALSE]

RouteEvent(event) ==
    LET event_type == identify_event_type(event) IN
    IF event_type \notin DOMAIN entity_lookup
    THEN /\ routed' = [NotRouted EXCEPT !.any = TRUE]
         /\ UNCHANGED <<entity_lookup, device_register, cmdVars, confVars, connVars>>
    ELSE LET event_id == EventId(event)
             entities == DefaultDictGet(entity_lookup[event_type], event_id)
             rs == DispatchAll(entities, event,
                               [sends |-> sends, state |-> state,
                                invoked |-> <<>>, raised |-> FALSE])
         IN /\ entity_lookup' =
                  [entity_lookup EXCEPT
                     ![event_type] = DefaultDictAfterGet(@, event_id)]
            /\ sends' = rs.sends
            /\ state' = rs.state
            /\ routed' = [any |-> TRUE, type |-> event_type,
                          entities |-> entities, invoked |-> rs.invoked,
                          hook |-> HookCalled(event_type, entities),
                          raised |-> rs.raised]
            /\ UNCHANGED <<device_register, repetition_task, executor, wire,
                           confVars, connVars>>

(***************************************************************************)
(* Initial states.  async_setup has built the lookup tables and is in its   *)
(* first `yield from connect()`; the platforms have registered entities.   *)
(***************************************************************************)
ReconnectIntervals == {DEFAULT_RECONNECT_INTERVAL, 3 * DEFAULT_RECONNECT_INTERVAL}

InitConn ==
    /\ hass_state = "running"
    /\ connecting = 1
    /\ attempts = 1
    /\ connect_jobs = 0
    /\ timers = <<>>
    /\ transports = [c \in Conns |-> "none"]
    /\ stop_listeners = {}
    /\ protocol = NoProtocol
    /\ wait_ack = "unset"
    /\ reconnect_interval \in ReconnectIntervals

InitCmd ==
    /\ state = [h \in Handlers |-> STATE_UNKNOWN]
    /\ repetition_task = [h \in Handlers |-> NoTask]
    /\ sends = <<>>
    /\ executor = {}
    /\ wire = {}

\* every entity a switch, registered for command events under its device id
SwitchLookup ==
    (EVENT_KEY_COMMAND :> [id \in {DeviceIdOf(h) : h \in Handlers} |->
                             <<CHOOSE h \in Handlers : DeviceIdOf(h) = id>>])
    @@ (EVENT_KEY_SENSOR :> <<>>)

InitSwitches ==
    /\ kind = [h \in Handlers |-> "switch"]
    /\ entity_lookup = SwitchLookup
    /\ device_register = {}
    /\ routed = NotRouted

(***************************************************************************)
(* Spec: the command dispatcher and the router of NumHandlers switches     *)
(* over the lifetime of the first gateway connection (it is opened, used   *)
(* and lost).  The connection manager as a whole is SpecConn below.        *)
(***************************************************************************)
SwitchCommands == {<<"turn_on", 0>>, <<"turn_off", 0>>}

SwitchEvents ==
    {e \in Events : /\ DOMAIN e = {EVENT_KEY_ID, EVENT_KEY_COMMAND}
                    /\ \E h \in Handlers : e[EVENT_KEY_ID] = DeviceIdOf(h)}

Init ==
    /\ InitConn
    /\ reconnect_interval = DEFAULT_RECONNECT_INTERVAL
    /\ InitCmd
    /\ InitSwitches
    /\ conf_wait_ack \in {"on", "off"}
    /\ signal_repetitions \in [Handlers -> 1..MaxRepetitions]

Next ==
    \/ \E c \in Conns : ConnectSucceed(c)
    \/ \E c \in Conns : Disconnect(c)
    \/ \E h \in Handlers, ci \in SwitchCommands : HandleCommand(h, ci[1], ci[2])
    \/ \E i \in 1..MaxCommands : Ack(i)
    \/ \E i \in 1..MaxCommands : TaskRun(i)
    \/ \E job \in executor : ExecutorRun(job)
    \/ \E e \in SwitchEvents : RouteEvent(e)

Spec == Init /\ [][Next]_vars

\* whether sequence i's current unit is a repetition task (the first
\* transmission runs in the caller with repetitions = _signal_repetitions)
IsRepeat(i) == sends[i].reps < signal_repetitions[sends[i].h]

\* send calls sequence i has made: payloads written, or queued for a write
Handed(i) == sends[i].sent + Cardinality({job \in executor : job.chain = i})

Superseded(i) ==
    \E j \in 1..Len(sends) : j > i /\ sends[j].h = sends[i].h

\* C1: once a later command has been issued for the same entity, an earlier
\* command sequence has no repetition task left that is scheduled or running,
\* and it makes no further send of its payload.
C1_NewCommandCancelsRepeats ==
    /\ [](\A i \in 1..Len(sends) :
            Superseded(i) => ~(IsRepeat(i) /\ sends[i].pc \in LivePc))
    /\ [][\A i \in 1..Len(sends) : Superseded(i) => Handed(i)' = Handed(i)]_vars

\* C8: after an inbound command event was handled by an entity, no command
\* sequence issued for it before the event makes a further send, and the
\* handling leaves the entity's state as the event gives it ('on' / 'off').
C8_InboundEventPreemptsRepeats ==
    /\ [][\A i \in 1..Len(sends) :
            sends[i].preempted => Handed(i)' = Handed(i)]_vars
    /\ [][\A e \in SwitchEvents :
            RouteEvent(e) =>
              \A h \in Handlers :
                (e[EVENT_KEY_ID] = DeviceIdOf(h)
                   /\ e[EVENT_KEY_COMMAND] \in {"on", "off"})
                => state'[h] = e[EVENT_KEY_COMMAND]]_vars

\* C10: an entity never has two repetition tasks that are scheduled or
\* running at the same time.
LiveRepeats(h) ==
    {i \in 1..Len(sends) : sends[i].h = h /\ IsRepeat(i) /\ sends[i].pc \in LivePc}

C10_OneLiveRepetitionPerHandler ==
    \A h \in Handlers : Cardinality(LiveRepeats(h)) <= 1

(***************************************************************************)
(* SpecConn: the connection manager alone, through connect failures,       *)
(* retries, disconnects and the shutdown of the host application.          *)
(***************************************************************************)
InitConnOnly ==
    /\ InitConn
    /\ InitCmd
    /\ InitSwitches
    /\ conf_wait_ack \in {"on", "off"}
    /\ signal_repetitions = [h \in Handlers |-> DEFAULT_SIGNAL_REPETITIONS]

NextConn ==
    \/ ConnectStart
    \/ \E exc \in ConnectErrors : ConnectFail(exc)
    \/ \E c \in Conns : ConnectSucceed(c)
    \/ TimerFire
    \/ \E c \in Conns : Disconnect(c)
    \/ Shutdown

\* the event loop runs what is due: an expired timer, a queued job, the
\* connection_lost callback of a transport that was closed
SpecConn ==
    /\ InitConnOnly
    /\ [][NextConn]_vars
    /\ WF_vars(TimerFire)
    /\ WF_vars(ConnectStart)
    /\ \A c \in Conns : WF_vars(transports[c] = "closing" /\ Disconnect(c))

\* a retry is on its way: an attempt in flight or queued, or a timer pending
RetryPending == connecting + connect_jobs + Len(timers) >= 1

Connected == \E c \in Conns : transports[c] = "open"

\* C6: a failed attempt arms exactly one timer, always with the configured
\* interval, and starts or queues no attempt itself; the expiring timer
\* queues exactly one attempt while the host is running and none once it is
\* stopping; while running and not connected a retry is always on its way;
\* once stopping, no attempt is queued any more.
C6_FixedIntervalRetry ==
    /\ [][(\E exc \in ConnectErrors : ConnectFail(exc)) =>
            /\ timers' = Append(timers, reconnect_interval)
            /\ connect_jobs' = connect_jobs
            /\ connecting' = connecting - 1
            /\ attempts' = attempts]_vars
    /\ [][TimerFire =>
            /\ Len(timers') = Len(timers) - 1
            /\ connect_jobs' =
                 connect_jobs + (IF hass_state = "running" THEN 1 ELSE 0)]_vars
    /\ [](hass_state = "running" => (Connected \/ RetryPending))
    /\ [][hass_state = "stopping" => connect_jobs' <= connect_jobs]_vars
    /\ [][reconnect_interval' = reconnect_interval]_vars
    /\ (Len(timers) >= 1 /\ hass_state = "running")
          ~> (connect_jobs >= 1 \/ hass_state = "stopping")
    /\ (connect_jobs >= 1 /\ attempts < MaxAttempts) ~> (connecting >= 1)

\* a second attempt has failed and its timer is pending; and a timer has
\* expired while the host was stopping
C6_Witness ==
    /\ attempts >= 2
    /\ Len(timers) = 1
    /\ connecting = 0
    /\ connect_jobs = 0

\* nothing of the connection manager is left to run
Quiescent ==
    /\ connecting = 0
    /\ connect_jobs = 0
    /\ timers = <<>>
    /\ \A c \in Conns : transports[c] # "closing"

\* C7: once shutdown has begun no connection attempt is queued, and when the
\* connection manager has come to rest no connection is open and none is
\* published to RflinkCommand.
C7_ShutdownClosesConnection ==
    /\ [][hass_state = "stopping" => connect_jobs' <= connect_jobs]_vars
    /\ []((hass_state = "stopping" /\ Quiescent) =>
            (~Connected /\ protocol = NoProtocol))

(***************************************************************************)
(* SpecRoute: the router over the registries the platforms may have built: *)
(* entities of either class, registered in any order under a device id for *)
(* command and for sensor events, with or without a hook per event class.  *)
(***************************************************************************)
\* the lists a platform can have built by appending distinct entities
EntityLists ==
    {<<>>} \cup {<<h>> : h \in Handlers}
           \cup {<<h, g>> : <<h, g>> \in {p \in Handlers \X Handlers : p[1] # p[2]}}

\* device id D1 is registered for command events with any such list, and for
\* sensor events with the same list or with none
RouteLookups ==
    {(EVENT_KEY_COMMAND :> ("D1" :> p[1])) @@ (EVENT_KEY_SENSOR :> ("D1" :> p[2])) :
        p \in {q \in EntityLists \X EntityLists : q[2] \in {<<>>, q[1]}}}

RouteEvents ==
    {e \in Events : /\ EVENT_KEY_UNIT \notin DOMAIN e
                    /\ EVENT_KEY_ID \in DOMAIN e => e[EVENT_KEY_ID] \in {"D1", "D9"}
                    /\ EVENT_KEY_COMMAND \in DOMAIN e =>
                          e[EVENT_KEY_COMMAND] \in {"on", "off"}}

InitRoute ==
    /\ InitConn
    /\ reconnect_interval = DEFAULT_RECONNECT_INTERVAL
    /\ InitCmd
    /\ conf_wait_ack = "on"
    /\ signal_repetitions = [h \in Handlers |-> DEFAULT_SIGNAL_REPETITIONS]
    /\ kind \in [Handlers -> {"switch", "device"}]
    /\ entity_lookup \in RouteLookups
    /\ device_register \in SUBSET EventClasses
    /\ routed = NotRouted

NextRoute == \E e \in RouteEvents : RouteEvent(e)

SpecRoute == InitRoute /\ [][NextRoute]_vars

\* C4: when the lookup of a routed command or sensor event gave N >= 1
\* entities, handle_event was called on each of them once, in list order, and
\* the hook was not called.
C4_AllHandlersInvokedOnce ==
    (routed.any /\ routed.type \in EventClasses /\ Len(routed.entities) >= 1)
    => (routed.invoked = routed.entities /\ ~routed.hook)

\* C5: when the lookup of a routed command or sensor event gave no entity, no
\* handle_event was called and the hook was called exactly when one is
\* installed for the event's class; the hook is never called when an entity
\* matched.
C5_HookIffNoHandler ==
    (routed.any /\ routed.type \in EventClasses)
    => /\ routed.entities = <<>> =>
            (routed.invoked = <<>> /\ (routed.hook <=> routed.type \in device_register))
       /\ routed.hook => (routed.entities = <<>> /\ routed.invoked = <<>>)

\* an event without registered entity was routed to the hook of its class
C5_Witness ==
    /\ routed.any
    /\ routed.type = EVENT_KEY_SENSOR
    /\ routed.entities = <<>>
    /\ routed.hook

\* C9: when a handler raised while an event was dispatched, handle_event was
\* still called on every entity of the list.
C9_FailureDoesNotStopDispatch ==
    (routed.any /\ routed.raised) => routed.invoked = routed.entities

(***************************************************************************)
(* SpecSingle: the gateway is connected and stays so, every entity is      *)
(* given at most one command and no inbound event, every acknowledgment    *)
(* arrives and the event loop and the executor run what they were given.   *)
(***************************************************************************)
InitConnected ==
    /\ hass_state = "running"
    /\ connecting = 0
    /\ attempts = 1
    /\ connect_jobs = 0
    /\ timers = <<>>
    /\ transports = [c \in Conns |-> IF c = 1 THEN "open" ELSE "none"]
    /\ stop_listeners = {1}
    /\ protocol = 1
    /\ wait_ack = conf_wait_ack
    /\ reconnect_interval = DEFAULT_RECONNECT_INTERVAL

InitSingle ==
    /\ conf_wait_ack \in {"on", "off"}
    /\ InitConnected
    /\ InitCmd
    /\ InitSwitches
    /\ signal_repetitions \in {[h \in Handlers |-> r] : r \in 1..SingleMaxRepetitions}

\* the entities that are given a command in SpecSingle
SingleHandlers == {1, 2}

\* the one command of entity h
SingleCommand(h, command, arg) ==
    /\ h \in SingleHandlers
    /\ \A i \in 1..Len(sends) : sends[i].h # h
    /\ HandleCommand(h, command, arg)

NextSingle ==
    \/ \E h \in Handlers, ci \in SwitchCommands : SingleCommand(h, ci[1], ci[2])
    \/ \E i \in 1..MaxCommands : Ack(i)
    \/ \E i \in 1..MaxCommands : TaskRun(i)
    \/ \E job \in executor : ExecutorRun(job)

SpecSingle ==
    /\ InitSingle
    /\ [][NextSingle]_vars
    /\ \A i \in 1..MaxCommands : WF_vars(Ack(i)) /\ WF_vars(TaskRun(i))
    /\ WF_vars(\E job \in executor : ExecutorRun(job))

Repetitions(i) == signal_repetitions[sends[i].h]

\* sequence i has come to its end with every send written to the transport
Completed(i) ==
    /\ i <= Len(sends)
    /\ sends[i].pc = "done"
    /\ \A job \in executor : job.chain # i

\* C2: a command of an entity with signal_repetitions = R never makes more
\* than R sends, every one of them writes the entity's device id with the
\* command's payload, the sequence ends only after R sends, and it does come
\* to its end with exactly R transmissions written.
C2_ExactlyRTransmissions ==
    /\ [](\A i \in 1..Len(sends) :
            /\ Handed(i) <= Repetitions(i)
            /\ sends[i].pc \in LivePc \cup {"done"}
            /\ sends[i].pc = "done" => Handed(i) = Repetitions(i)
            /\ \A w \in wire :
                 w.chain = i => (w.cmd = sends[i].cmd /\ w.id = DeviceIdOf(sends[i].h)))
    /\ \A i \in 1..MaxCommands :
         (i <= Len(sends)) ~> (Completed(i) /\ sends[i].sent = Repetitions(i))

\* a command with three repetitions has completed
C2_Witness ==
    \E i \in 1..Len(sends) :
        /\ Completed(i)
        /\ Repetitions(i) >= 3
        /\ sends[i].sent = Repetitions(i)

(***************************************************************************)
(* SpecLink: the command dispatcher on top of the whole connection         *)
(* manager: commands are issued and repetitions run while the gateway      *)
(* connection is being opened, is lost, is retried and is replaced.  Each  *)
(* command is transmitted twice (one repetition).                          *)
(***************************************************************************)
InitLink ==
    /\ InitConn
    /\ reconnect_interval = DEFAULT_RECONNECT_INTERVAL
    /\ InitCmd
    /\ InitSwitches
    /\ conf_wait_ack \in {"on", "off"}
    /\ signal_repetitions = [h \in Handlers |-> DEFAULT_SIGNAL_REPETITIONS + 1]

LinkCommands == {<<"turn_on", 0>>}

\* the entity that is given commands in SpecLink
LinkHandlers == {1}

NextLink ==
    \/ ConnectStart
    \/ \E exc \in ConnectErrors : ConnectFail(exc)
    \/ \E c \in Conns : ConnectSucceed(c)
    \/ TimerFire
    \/ \E c \in Conns : Disconnect(c)
    \/ Shutdown
    \/ \E h \in LinkHandlers, ci \in LinkCommands : HandleCommand(h, ci[1], ci[2])
    \/ \E i \in 1..MaxCommands : Ack(i)
    \/ \E i \in 1..MaxCommands : TaskRun(i)
    \/ \E job \in executor : ExecutorRun(job)

SpecLink == InitLink /\ [][NextLink]_vars

\* what a send attempt of sequence i that must fail leaves: the sequence
\* raised, and neither a transport nor the executor was given anything
SendFailed(i) ==
    /\ sends'[i].pc = "failed"
    /\ wire' = wire
    /\ executor' = executor

\* what a send attempt of sequence i that succeeds on connection c leaves: the
\* payload written to c (ack-wait on) or queued for c (ack-wait off)
SentOn(i, c) ==
    /\ sends'[i].pc # "failed"
    /\ IF wait_ack = "on"
       THEN /\ executor' = executor
            /\ \E w \in wire' : w.chain = i /\ w.conn = c
            /\ sends'[i].sent = (IF i <= Len(sends) THEN sends[i].sent ELSE 0) + 1
       ELSE \E job \in executor' \ executor : job.chain = i /\ job.conn = c

\* C3: a disconnect notification leaves no protocol published; the protocol
\* becomes published again only by a successful connect; every send attempted
\* while none is published (first transmission or repetition, ack-wait on or
\* off) raises and hands nothing over; every send attempted while one is
\* published goes to that connection.
C3_SendsFailUntilReconnected ==
    /\ [][(\E c \in Conns : Disconnect(c)) => protocol' = NoProtocol]_vars
    /\ [][(protocol = NoProtocol /\ protocol' # NoProtocol) =>
            \E c \in Conns : ConnectSucceed(c) /\ protocol' = c]_vars
    /\ [][\A h \in LinkHandlers, ci \in LinkCommands :
            HandleCommand(h, ci[1], ci[2]) =>
              IF protocol = NoProtocol THEN SendFailed(Len(sends) + 1)
              ELSE SentOn(Len(sends) + 1, protocol)]_vars
    /\ [][\A i \in 1..Len(sends) :
            TaskRun(i) =>
              IF protocol = NoProtocol THEN SendFailed(i)
              ELSE SentOn(i, protocol)]_vars

\* an entity whose command failed while the gateway was disconnected has sent
\* a later command on the second connection
C3_Witness ==
    /\ protocol = 2
    /\ \E i, j \in 1..Len(sends) :
         /\ i < j
         /\ sends[i].h = sends[j].h
         /\ sends[i].pc = "failed"
         /\ \E w \in wire : w.chain = j /\ w.conn = 2 /\ w.live

\* whether connection c may be written to: it is the one published to
\* RflinkCommand and no disconnect has been notified for it
Usable(c) == protocol = c /\ transports[c] # "closed"

\* C11: every payload is written to the connection that is published at the
\* moment of the write, and never to one whose disconnect was already
\* notified: the writes made by a send with ack-wait on, and the writes the
\* executor makes for the sends with ack-wait off.
C11_NoStaleTransmission ==
    /\ [][\A w \in wire' \ wire : Usable(w.conn)]_vars
    /\ [][\A job \in executor : ExecutorRun(job) => Usable(job.conn)]_vars

(***************************************************************************)
(* SpecEntity: one switchable entity while the first gateway connection is *)
(* opened and used: commands (turn_on, turn_off, dim) are issued before    *)
(* and after the connection is bound, inbound command events arrive for    *)
(* the entity, acknowledgments arrive and repetitions run in any order.    *)
(* SpecUnbound: the same entity and commands, without inbound events,      *)
(* through the loss of the connection.                                     *)
(***************************************************************************)
\* the brightness values dim is called with in SpecEntity
DimSamples == {254}

\* the signal_repetitions of the entity: the default (no repetition task) and
\* one repetition
EntityRepetitions == {DEFAULT_SIGNAL_REPETITIONS, DEFAULT_SIGNAL_REPETITIONS + 1}

EntityCommands ==
    {<<"turn_on", 0>>, <<"turn_off", 0>>} \cup {<<"dim", b>> : b \in DimSamples}

\* the entity that is given commands and events in SpecEntity
EntityHandlers == {1}

\* the inbound command events with the id of such an entity
EntityEvents ==
    {(EVENT_KEY_ID :> DeviceIdOf(h)) @@ (EVENT_KEY_COMMAND :> c) :
        h \in EntityHandlers, c \in EventValues(EVENT_KEY_COMMAND)}

InitEntity ==
    /\ InitConn
    /\ reconnect_interval = DEFAULT_RECONNECT_INTERVAL
    /\ InitCmd
    /\ InitSwitches
    /\ conf_wait_ack \in {"on", "off"}
    /\ signal_repetitions \in {[h \in Handlers |-> r] : r \in EntityRepetitions}

NextEntity ==
    \/ \E c \in Conns : ConnectSucceed(c)
    \/ \E h \in EntityHandlers, ci \in EntityCommands : HandleCommand(h, ci[1], ci[2])
    \/ \E i \in 1..MaxCommands : Ack(i)
    \/ \E i \in 1..MaxCommands : TaskRun(i)
    \/ \E job \in executor : ExecutorRun(job)
    \/ \E e \in EntityEvents : RouteEvent(e)

SpecEntity == InitEntity /\ [][NextEntity]_vars

NextUnbound ==
    \/ \E c \in Conns : ConnectSucceed(c)
    \/ \E c \in Conns : Disconnect(c)
    \/ \E h \in EntityHandlers, ci \in EntityCommands : HandleCommand(h, ci[1], ci[2])
    \/ \E i \in 1..MaxCommands : Ack(i)
    \/ \E i \in 1..MaxCommands : TaskRun(i)
    \/ \E job \in executor : ExecutorRun(job)

SpecUnbound == InitEntity /\ [][NextUnbound]_vars

\* the state the contract gives a command: on for turn_on and dim, off for
\* turn_off
OptimisticState(command) ==
    CASE command = "turn_on" -> "on"
      [] command = "dim" -> "on"
      [] command = "turn_off" -> "off"

\* C12: a command issued while no connection is bound raises in the coroutine
\* of its caller (the first transmission), hands nothing to a transport or to
\* the executor, and leaves the entity's state as the command set it; the
\* failed sequence stays failed, never sends, and the state it left is only
\* changed by a later command of the entity.
C12_FailedSendKeepsState ==
    /\ [][\A h \in EntityHandlers, ci \in EntityCommands :
            (protocol = NoProtocol /\ HandleCommand(h, ci[1], ci[2])) =>
              /\ sends'[Len(sends')].pc = "failed"
              /\ sends'[Len(sends')].reps = signal_repetitions[h]
              /\ wire' = wire
              /\ executor' = executor
              /\ state'[h] = OptimisticState(ci[1])]_vars
    /\ [][\A i \in 1..Len(sends) :
            (sends[i].pc = "failed" /\ ~IsRepeat(i)) =>
              /\ sends'[i].pc = "failed"
              /\ Handed(i)' = 0
              /\ (\A j \in 1..Len(sends') : sends'[j].h = sends[i].h => j <= i)
                   => state'[sends[i].h] = state[sends[i].h]]_vars

\* a dim command was issued after the connection was lost: it failed, nothing
\* was sent, and the entity is on
C12_Witness ==
    /\ protocol = NoProtocol
    /\ transports[1] = "closed"
    /\ Len(sends) = 1
    /\ sends[1].pc = "failed"
    /\ sends[1].cmd = "14"
    /\ state[sends[1].h] = "on"
    /\ wire = {}
    /\ executor = {}

\* C20: the entity's state is the one the last started state-changing
\* operation gave it: a command leaves on (turn_on, dim) or off (turn_off),
\* an inbound 'on' / 'off' event leaves on / off, an inbound command other
\* than these leaves the state as it was (no step that issues a command, one
\* more sequence, or that routes an event, nothing sent and no task stored,
\* leaves another state); only these two operations change the state, never
\* an acknowledgment, a repetition task, an executor write or a connection
\* change; and a state that has left unknown never returns to it.
C20_StateFollowsLastOperation ==
    /\ [][\A h \in EntityHandlers, ci \in EntityCommands :
            (/\ Len(sends') = Len(sends) + 1
             /\ state'[h] # OptimisticState(ci[1]))
            => ~HandleCommand(h, ci[1], ci[2])]_vars
    /\ [][\A h \in EntityHandlers, e \in EntityEvents :
            (/\ e[EVENT_KEY_ID] = DeviceIdOf(h)
             /\ routed'.any
             /\ Len(sends') = Len(sends)
             /\ <<repetition_task, executor, wire, protocol, transports>>'
                  = <<repetition_task, executor, wire, protocol, transports>>
             /\ state'[h] # (IF e[EVENT_KEY_COMMAND] \in {"on", "off"}
                             THEN e[EVENT_KEY_COMMAND] ELSE state[h]))
            => ~RouteEvent(e)]_vars
    /\ [][state' # state =>
            \/ \E h \in EntityHandlers, ci \in EntityCommands :
                  HandleCommand(h, ci[1], ci[2])
            \/ \E e \in EntityEvents : RouteEvent(e)]_vars
    /\ [][\A h \in Handlers :
            state[h] # STATE_UNKNOWN => state'[h] # STATE_UNKNOWN]_vars
    /\ [](\A h \in Handlers : state[h] \in {STATE_UNKNOWN, "on", "off"})

\* a dim command was issued, an inbound 'off' event was handled while the
\* command waited for its acknowledgment, the acknowledgment and the
\* repetition completed afterwards: the entity is off
C20_Witness ==
    \E i \in 1..Len(sends) :
        /\ sends[i].cmd = "14"
        /\ sends[i].preempted
        /\ sends[i].pc = "done"
        /\ sends[i].sent = 2
        /\ state[sends[i].h] = "off"

(***************************************************************************)
(* Further properties of the connection manager, under SpecConn.           *)
(***************************************************************************)
\* C13: every disconnect notification leaves no connection published, in the
\* same step; it queues exactly one connect job when the host application is
\* not stopping and none when it is; it starts no attempt and arms no timer
\* itself.
C13_DisconnectInvalidatesAndReschedules ==
    [][\A c \in Conns : Disconnect(c) =>
         /\ protocol' = NoProtocol
         /\ connect_jobs' = connect_jobs + (IF hass_state # "stopping" THEN 1 ELSE 0)
         /\ connecting' = connecting
         /\ timers' = timers]_vars

\* the second connection was closed by the shutdown and its disconnect was
\* notified: nothing is published and nothing is queued
C13_Witness ==
    /\ hass_state = "stopping"
    /\ transports[1] = "closed"
    /\ transports[2] = "closed"
    /\ protocol = NoProtocol
    /\ connect_jobs = 0
    /\ connecting = 0
    /\ timers = <<>>

OpenConns == {c \in Conns : transports[c] = "open"}

\* C14: at most one connection is open and at most one attempt is in flight;
\* an open connection is the one published to RflinkCommand; a successful
\* connect publishes a connection object that was never published before,
\* while no other connection is open.
C14_SingleConnection ==
    /\ [](Cardinality(OpenConns) <= 1)
    /\ [](connecting <= 1)
    /\ [](\A c \in OpenConns : protocol = c)
    /\ [][\A c \in Conns : ConnectSucceed(c) =>
            /\ OpenConns = {}
            /\ transports[c] = "none"
            /\ protocol' = c
            /\ protocol' # protocol
            /\ OpenConns' = {c}]_vars

\* the first connection was lost and the second one has replaced it
C14_Witness ==
    /\ transports[1] = "closed"
    /\ transports[2] = "open"
    /\ protocol = 2
    /\ connecting = 0

(***************************************************************************)
(* SpecClassify: the router is given events with every combination of the  *)
(* optional keys id, command, sensor and unit.                             *)
(***************************************************************************)
ClassifyEvents ==
    {e \in Events : /\ EVENT_KEY_ID \in DOMAIN e => e[EVENT_KEY_ID] \in {"D1", "D9"}
                    /\ EVENT_KEY_COMMAND \in DOMAIN e => e[EVENT_KEY_COMMAND] = "on"}

NextClassify == \E e \in ClassifyEvents : RouteEvent(e)

\* every entity a switch registered under its own device id, with or without
\* a hook per event class
InitClassify ==
    /\ InitConn
    /\ reconnect_interval = DEFAULT_RECONNECT_INTERVAL
    /\ InitCmd
    /\ conf_wait_ack = "on"
    /\ signal_repetitions = [h \in Handlers |-> DEFAULT_SIGNAL_REPETITIONS]
    /\ kind = [h \in Handlers |-> "switch"]
    /\ entity_lookup = SwitchLookup
    /\ device_register \in SUBSET EventClasses
    /\ routed = NotRouted

SpecClassify == InitClassify /\ [][NextClassify]_vars

HasKey(e, k) == k \in DOMAIN e

\* the class the contract gives event e, as one of the router's class names
IsClassOf(class, e) ==
    /\ HasKey(e, EVENT_KEY_COMMAND) => class = EVENT_KEY_COMMAND
    /\ (HasKey(e, EVENT_KEY_SENSOR) /\ ~HasKey(e, EVENT_KEY_COMMAND))
          => class = EVENT_KEY_SENSOR
    /\ (~HasKey(e, EVENT_KEY_SENSOR) /\ ~HasKey(e, EVENT_KEY_COMMAND))
          => class = "unknown"

\* C15: identify_event_type gives command for every event with a command key
\* (with or without a sensor key), sensor for every event with a sensor key
\* and no command key, and unknown for every other event; event_callback
\* routes each event under that class.
C15_Classification ==
    /\ [](\A e \in Events : IsClassOf(identify_event_type(e), e))
    /\ [][\A e \in ClassifyEvents : RouteEvent(e) => IsClassOf(routed'.type, e)]_vars

\* an event with neither a command nor a sensor key was classified unknown
\* and dropped, after an event of class sensor had been looked up
C15_Witness ==
    /\ routed.any
    /\ routed.type = "unknown"
    /\ "D9" \in DOMAIN entity_lookup[EVENT_KEY_SENSOR]
    /\ "D9" \in DOMAIN entity_lookup[EVENT_KEY_COMMAND]

(***************************************************************************)
(* Further properties of the command dispatcher, under Spec.               *)
(***************************************************************************)
\* the sequences of entity h with a transmission in flight: the payload was
\* handed to the transport and its acknowledgment is awaited
InFlight(h) ==
    {i \in 1..Len(sends) : sends[i].h = h /\ sends[i].pc = "await_ack"}

\* C16: an entity never has two transmissions in flight together: a send of
\* the entity starts only when no earlier send of it is still waiting for
\* its acknowledgment.
C16_SequentialSends ==
    \A h \in Handlers : Cardinality(InFlight(h)) <= 1

\* C18: a repetition that has started (its payload handed to the transport,
\* its acknowledgment awaited) is never ended by a cancellation: it stays
\* waiting, or goes on to its next repetition, or ends as done.
C18_CooperativeCancellation ==
    [][\A i \in 1..Len(sends) :
         (IsRepeat(i) /\ sends[i].pc = "await_ack") => sends'[i].pc # "cancelled"]_vars

(***************************************************************************)
(* A further property of the router, under SpecRoute.                      *)
(***************************************************************************)
\* C17: routing an event leaves the registry as it was, its identifier keys
\* included.
C17_LookupIsPure ==
    [][\A e \in RouteEvents : RouteEvent(e) => entity_lookup' = entity_lookup]_vars

(***************************************************************************)
(* SpecDim: the gateway is connected; one entity is given one dim command  *)
(* with any brightness of 0..MaxBrightness, and its transmissions run.     *)
(***************************************************************************)
DimHandlers == {1}

DimCommand(h, b) ==
    /\ h \in DimHandlers
    /\ SingleCommand(h, "dim", b)

NextDim ==
    \/ \E h \in Handlers, b \in 0..MaxBrightness : DimCommand(h, b)
    \/ \E i \in 1..MaxCommands : Ack(i)
    \/ \E i \in 1..MaxCommands : TaskRun(i)
    \/ \E job \in executor : ExecutorRun(job)

SpecDim == InitSingle /\ [][NextDim]_vars

\* the decimal strings of the dim levels
LevelStrings ==
    <<"0", "1", "2", "3", "4", "5", "6", "7", "8", "9",
      "10", "11", "12", "13", "14", "15">>

\* the level l with 17 * l <= b < 17 * (l + 1): b / 17 truncated toward zero
TruncatedLevel(b) ==
    CHOOSE l \in 0..(Len(LevelStrings) - 1) : 17 * l <= b /\ b < 17 * (l + 1)

\* C19: a dim command with brightness b of 0..MaxBrightness has as payload the
\* decimal string of b / 17 truncated toward zero (16 gives "0", 254 gives
\* "14"), every transmission of the command writes that string, and the
\* command leaves the entity on.
C19_DimTruncates ==
    /\ [][\A h \in DimHandlers, b \in 0..MaxBrightness :
            DimCommand(h, b) =>
              /\ sends'[Len(sends')].cmd = LevelStrings[TruncatedLevel(b) + 1]
              /\ state'[h] = "on"
              /\ \A w \in wire' \ wire : w.cmd = LevelStrings[TruncatedLevel(b) + 1]]_vars
    /\ [](\A w \in wire : w.cmd = sends[w.chain].cmd)
    /\ [](\A i \in 1..Len(sends) : \E l \in 1..Len(LevelStrings) :
            sends[i].cmd = LevelStrings[l])
    /\ [](CommandPayload("dim", 16) = "0" /\ CommandPayload("dim", 254) = "14")

\* a dim command of level 14 (brightness 238..254) was transmitted and the
\* entity is on
C19_Witness ==
    \E i \in 1..Len(sends) :
        /\ sends[i].cmd = "14"
        /\ sends[i].pc = "done"
        /\ state[sends[i].h] = "on"
        /\ \E w \in wire : w.chain = i /\ w.cmd = "14"

====
